---- MODULE Spec2Model ----
(***************************************************************************)
(* A model of the CodePilot frontend API layer (lib/api.ts): runCodePilot, *)
(* mergeAbortSignals, normaliseResponse and runCodePilotStream, together   *)
(* with the platform objects they drive (AbortController / AbortSignal,    *)
(* setTimeout / clearTimeout, fetch and Response.json), and of the page    *)
(* that calls it: HomePage, ChatInput and ToastProvider.                   *)
(*                                                                         *)
(* Platform semantics assumed (WHATWG DOM and Fetch):                      *)
(*   - AbortController.abort(reason) is a no-op on an aborted signal,      *)
(*     otherwise it records the reason (a fresh DOMException named         *)
(*     "AbortError" when reason is undefined) and runs the abort           *)
(*     listeners synchronously; a {once: true} listener is removed only    *)
(*     when it runs.                                                       *)
(*   - fetch with an aborted signal rejects with signal.reason and sends   *)
(*     nothing; aborting during the exchange or during the body read       *)
(*     rejects the pending promise with signal.reason.                     *)
(*   - the continuation of an await runs as a microtask, before any timer  *)
(*     or event of the environment, so an abort and the catch/finally      *)
(*     blocks it triggers form one atomic step.                            *)
(***************************************************************************)
EXTENDS Integers, Sequences, FiniteSets, TLC

VARIABLES
  ext,            \* the caller-owned AbortSignal: [aborted, reason]
  listeners,      \* calls whose "abort" listener is registered on ext
  calls,          \* per runCodePilot call: its locals and its promise
  streamOutcome,  \* the promise of the last runCodePilotStream call
  streamEffects,  \* requests, timers, listeners, handler calls made by it
  raw,            \* normaliseResponse: the payload under normalisation
  normalised,     \* normaliseResponse: its result (NotNormalised before)
  renormalised,   \* normaliseResponse applied to that result
  problem,        \* ChatInput: the text of the textarea
  isLoadingProp,  \* ChatInput: the isLoading prop of its last render
  page,           \* HomePage: the state isLoading, result, error
  pending,        \* handleRun invocations awaiting runCodePilot
  runs,           \* handleRun invocations so far
  toasts,         \* ToastProvider: the state toasts
  renderedToasts, \* ToastProvider: the list of its last render
  toastDirty,     \* toasts was set since the effect last ran
  toastTimers,    \* setTimeout timers of the effect that are pending
  toastGen,       \* runs of the effect so far
  uiStep          \* the last handler of the page that ran, with its input

vars ==
  <<ext, listeners, calls, streamOutcome, streamEffects, raw, normalised,
    renormalised, problem, isLoadingProp, page, pending, runs, toasts,
    renderedToasts, toastDirty, toastTimers, toastGen, uiStep>>

callVars == <<ext, listeners, calls>>
streamVars == <<streamOutcome, streamEffects>>
normVars == <<raw, normalised, renormalised>>
inputVars == <<problem, isLoadingProp>>
pageVars == <<page, pending, runs>>
toastVars == <<toasts, renderedToasts, toastDirty, toastTimers, toastGen>>
uiVars == <<inputVars, pageVars, toastVars, uiStep>>

----------------------------------------------------------------------------
(* Bounds of the model.                                                    *)

MaxCalls == 2      \* runCodePilot calls issued in one behaviour
MaxTime == 1       \* time units a call is followed for; timeoutMs is 0 or MaxTime

CallIds == 1..MaxCalls
TimeoutChoices == {0, MaxTime}

----------------------------------------------------------------------------
(* JavaScript values: optional fields are sets of at most one element, so  *)
(* that undefined ({}) never equals a string or a number.                  *)

undefined == {}

\* A thrown string primitive: it has neither a name nor a message.
StringValue(s) ==
  [type |-> "string", name |-> undefined, message |-> undefined,
   status |-> undefined, text |-> s]

\* An Error / DOMException object with the given name and message.
ErrorValue(n, m) ==
  [type |-> "Error", name |-> {n}, message |-> {m},
   status |-> undefined, text |-> ""]

\* new CodePilotError(message, status)
CodePilotError(m, st) ==
  [type |-> "CodePilotError", name |-> {"CodePilotError"}, message |-> {m},
   status |-> st, text |-> ""]

\* The reason the timeout callback aborts with.
TimeoutReason == StringValue("Request timed out")

\* signal.reason after abort() without an argument.
DefaultAbortReason == ErrorValue("AbortError", "signal is aborted without reason")

\* An abort that records its reason even on an aborted signal.
AbortOverwrites(sig, reason) == [aborted |-> TRUE, reason |-> reason]

\* AbortController.abort(reason) on a controller or signal record.
Abort(sig, reason) ==
  IF sig.aborted THEN sig ELSE [aborted |-> TRUE, reason |-> reason]

NotAborted == [aborted |-> FALSE, reason |-> StringValue("")]

\* What fetch and Response.json reject with, apart from an abort reason.
FetchTypeError == ErrorValue("TypeError", "Failed to fetch")
JsonSyntaxError == ErrorValue("SyntaxError", "Unexpected token < in JSON")

\* The reasons a caller aborts its signal with: abort(),
\* abort("Cancelled by user"), abort(new DOMException("", "AbortError")).
CallerReasons ==
  { DefaultAbortReason,
    StringValue("Cancelled by user"),
    ErrorValue("AbortError", "") }

\* The text a reason carries: the string itself, or the object's message.
ReasonText(r) ==
  IF r.type = "string" THEN r.text
  ELSE IF r.message # undefined THEN CHOOSE m \in r.message : TRUE
  ELSE ""

----------------------------------------------------------------------------
(* HTTP responses.                                                         *)

Statuses == {200, 404, 500}

StatusText(st) ==
  CASE st = 200 -> "OK"
    [] st = 404 -> "Not Found"
    [] st = 500 -> "Internal Server Error"

\* Response.ok
Ok(st) == st >= 200 /\ st <= 299

NetworkMessage == "Network error while calling CodePilot. Please try again."
AbortFallbackMessage == "Request aborted or timed out"
StreamMessage == "Streaming API is not enabled yet."

BackendMessage(st) ==
  "Backend error: " \o ToString(st) \o " " \o StatusText(st)

\* The error thrown for a response that is not ok.
HttpError(st) == CodePilotError(BackendMessage(st), {st})

\* The catch block without its instanceof branch: an error thrown inside try
\* is wrapped like a transport failure.
ClassifyErrorWrapsAll(error) ==
  IF error.name = {"AbortError"}
  THEN CodePilotError(
         IF error.message # undefined
         THEN CHOOSE m \in error.message : TRUE
         ELSE AbortFallbackMessage,
         undefined)
  ELSE CodePilotError(NetworkMessage, undefined)

\* The catch block passing on the message of whatever Error it caught.
ClassifyErrorKeepsMessage(error) ==
  IF error.type = "CodePilotError"
  THEN error
  ELSE CodePilotError(
         IF error.message # undefined
         THEN CHOOSE m \in error.message : TRUE
         ELSE NetworkMessage,
         undefined)

\* The catch block of runCodePilot: the error the call rejects with.
ClassifyError(error) ==
  IF error.name = {"AbortError"}
  THEN CodePilotError(
         IF error.message # undefined
         THEN CHOOSE m \in error.message : TRUE
         ELSE AbortFallbackMessage,
         undefined)
  ELSE IF error.type = "CodePilotError"
  THEN error
  ELSE CodePilotError(NetworkMessage, undefined)

----------------------------------------------------------------------------
(* JSON payloads, as res.json() yields them, and normaliseResponse.        *)

JNull == [t |-> "null"]
JUndefined == [t |-> "undefined"]
JString(s) == [t |-> "string", s |-> s]
JArray(q) == [t |-> "array", items |-> q]
JObject(f) == [t |-> "object", f |-> f]

\* raw?.key : undefined unless raw is an object that has the key.
Get(r, key) ==
  IF r.t = "object" /\ key \in DOMAIN r.f THEN r.f[key] ELSE JUndefined

\* a ?? b
Nullish(a, b) == IF a.t \in {"null", "undefined"} THEN b ELSE a

CanonicalKeys ==
  {"request_id", "intent_result", "planning_result", "test_result",
   "debug_result", "generated_code", "execution_log"}

\* The legacy alias of a canonical key; keys without one map to themselves.
Alias(key) ==
  CASE key = "intent_result" -> "intent_classification"
    [] key = "planning_result" -> "engineering_plan"
    [] key = "test_result" -> "test_results"
    [] key = "debug_result" -> "debug_analysis"
    [] OTHER -> key

AliasedKeys == {k \in CanonicalKeys : Alias(k) # k}
AllKeys == CanonicalKeys \cup {Alias(k) : k \in AliasedKeys}

\* The keys of the object literal normaliseResponse returns.
ResultKeys ==
  {"request_id", "intent_result", "planning_result", "test_result",
   "debug_result", "generated_code", "execution_log"}

\* A field resolved without its final "?? null".
ResolveFieldNoDefault(r, key) ==
  Nullish(Get(r, key), Get(r, Alias(key)))

\* A field read from its legacy key alone.
ResolveFieldAliasOnly(r, key) ==
  Nullish(Get(r, Alias(key)), JNull)

\* A field that tries its legacy key before its primary key.
ResolveFieldAliasFirst(r, key) ==
  Nullish(Nullish(Get(r, Alias(key)), Get(r, key)), JNull)

\* One field of the returned literal: (raw?.key ?? raw?.alias) ?? null.
ResolveField(r, key) ==
  Nullish(Nullish(Get(r, key), Get(r, Alias(key))), JNull)

normaliseResponse(r) ==
  JObject([key \in ResultKeys |-> ResolveField(r, key)])

\* The value a backend sends under a key (distinct per key, so that a
\* primary key and its alias disagree when both are present).
ValueFor(key) ==
  CASE key = "request_id" -> JString("r1")
    [] key = "generated_code" -> JString("print(1)")
    [] key = "execution_log" -> JArray(<<JObject([stage |-> JString("plan")])>>)
    [] OTHER -> JObject([summary |-> JString(key)])

\* An object payload from a choice per key: "absent", "null" or "value".
PayloadOf(choice) ==
  JObject([key \in {k \in DOMAIN choice : choice[k] # "absent"} |->
             IF choice[key] = "null" THEN JNull ELSE ValueFor(key)])

\* Every payload normaliseResponse is applied to: null, undefined, a
\* primitive, and every object in which each canonical key is absent, null
\* or set and each legacy key is absent or set.
RawPayloads(canonical, legacy) ==
  {JNull, JUndefined, JString("not an object")}
    \cup {PayloadOf(p @@ a) :
            p \in [canonical -> {"absent", "null", "value"}],
            a \in [legacy -> {"absent", "value"}]}

\* The payloads the backend answers a /solve request with.
WirePayloads ==
  { JNull,
    JObject([request_id |-> JString("r1"),
             test_results |-> JObject([summary |-> JString("ok"),
                                       cases |-> JArray(<<>>)])]) }

NotNormalised == [t |-> "none"]

----------------------------------------------------------------------------
(* runCodePilot.                                                           *)

Pending == [state |-> "pending"]
Fulfilled(v) == [state |-> "fulfilled", value |-> v]
Rejected(e) == [state |-> "rejected", error |-> e]

\* A call that has not been issued.
IdleCall ==
  [pc |-> "idle",              \* idle, fetch (awaiting fetch), json, done
   signal |-> FALSE,           \* options.signal was supplied
   cancelledAtCall |-> FALSE,  \* options.signal.aborted when called
   timeoutMs |-> 0,
   controller |-> NotAborted,  \* the effective token
   timeout |-> "none",         \* the timer: none, pending, fired, cleared
   elapsed |-> 0,              \* time since the call was issued, up to timeoutMs
   requests |-> 0,             \* requests sent to /solve
   res |-> undefined,          \* status of the response fetch resolved with
   thrown |-> undefined,       \* the value the catch block received
   outcome |-> Pending]

\* mergeAbortSignals(parent): the controller, and whether a listener was
\* added to parent.
mergeAbortSignals(supplied, parent) ==
  IF ~supplied THEN [controller |-> NotAborted, listening |-> FALSE]
  ELSE IF parent.aborted
  THEN [controller |-> Abort(NotAborted, parent.reason), listening |-> FALSE]
  ELSE [controller |-> NotAborted, listening |-> TRUE]

\* A finally block that leaves the timer alone.
ClearTimeoutSkipped(t) == t

\* clearTimeout(timeout)
ClearTimeout(t) == IF t = "pending" THEN "cleared" ELSE t

\* The requests fetch sends for a signal: none when it is already aborted.
RequestsSent(controller) == IF controller.aborted THEN 0 ELSE 1

\* The call returns normally: finally runs, the promise is fulfilled.
Return(call, value) ==
  [call EXCEPT !.pc = "done", !.outcome = Fulfilled(value),
               !.timeout = ClearTimeout(@)]

\* A catch block that sends the request again before it gives up.
ThrowAfterRetry(call, error) ==
  [call EXCEPT !.pc = "done", !.thrown = {error},
               !.outcome = Rejected(ClassifyError(error)),
               !.timeout = ClearTimeout(@),
               !.requests = @ + 1]

\* A value is thrown inside try: catch classifies it, finally runs, the
\* promise is rejected.
Throw(call, error) ==
  [call EXCEPT !.pc = "done", !.thrown = {error},
               !.outcome = Rejected(ClassifyError(error)),
               !.timeout = ClearTimeout(@)]

InFlight(call) == call.pc \in {"fetch", "json"}

\* An abort that rejects the call's promise whether or not the call is still
\* in flight.
AbortCallRejectsAgain(call, reason) ==
  LET aborted == [call EXCEPT !.controller = Abort(@, reason)]
  IN IF call.pc # "idle" /\ ~call.controller.aborted
     THEN Throw(aborted, aborted.controller.reason)
     ELSE aborted

\* controller.abort(reason) on a call: the pending fetch or body read, if
\* any, rejects with the signal's reason.
AbortCall(call, reason) ==
  LET aborted == [call EXCEPT !.controller = Abort(@, reason)]
  IN IF InFlight(call) /\ ~call.controller.aborted
     THEN Throw(aborted, aborted.controller.reason)
     ELSE aborted

\* runCodePilot({problem, userId, timeoutMs, signal}) up to its first
\* suspension: the whole call when the signal is already aborted.
Start(c, supplied, T) ==
  /\ calls[c].pc = "idle"
  /\ \A d \in CallIds : d < c => calls[d].pc # "idle"
  /\ LET merged == mergeAbortSignals(supplied, ext)
         begun == [calls[c] EXCEPT
                     !.pc = "fetch",
                     !.signal = supplied,
                     !.cancelledAtCall = supplied /\ ext.aborted,
                     !.timeoutMs = T,
                     !.controller = merged.controller,
                     !.timeout = "pending",
                     !.requests = RequestsSent(merged.controller)]
     IN /\ calls' = [calls EXCEPT ![c] =
                       IF merged.controller.aborted
                       THEN Throw(begun, merged.controller.reason)
                       ELSE begun]
        /\ listeners' = [listeners EXCEPT ![c] =
                           IF merged.listening THEN @ + 1 ELSE @]
  /\ UNCHANGED <<ext, streamVars, normVars, uiVars>>

\* The caller aborts its signal: every listener runs once and is removed.
ExtAbort(reason) ==
  /\ ~ext.aborted
  /\ ext' = Abort(ext, reason)
  /\ calls' = [c \in CallIds |->
                 IF listeners[c] > 0 THEN AbortCall(calls[c], ext'.reason)
                 ELSE calls[c]]
  /\ listeners' = [c \in CallIds |-> 0]
  /\ UNCHANGED <<streamVars, normVars, uiVars>>

\* A timer callback that aborts one controller shared by every call.
TimerFiresShared(c) ==
  /\ calls[c].timeout = "pending"
  /\ calls[c].pc = "done" \/ calls[c].elapsed >= calls[c].timeoutMs
  /\ calls' = [d \in CallIds |->
                 IF d = c
                 THEN AbortCall([calls[c] EXCEPT !.timeout = "fired"], TimeoutReason)
                 ELSE IF calls[d].pc # "idle"
                 THEN AbortCall(calls[d], TimeoutReason)
                 ELSE calls[d]]
  /\ UNCHANGED <<ext, listeners, streamVars, normVars, uiVars>>

\* The timer callback runs: controller.abort("Request timed out").
TimerFires(c) ==
  /\ calls[c].timeout = "pending"
  /\ calls[c].pc = "done" \/ calls[c].elapsed >= calls[c].timeoutMs
  /\ calls' = [calls EXCEPT ![c] =
                 AbortCall([calls[c] EXCEPT !.timeout = "fired"], TimeoutReason)]
  /\ UNCHANGED <<ext, listeners, streamVars, normVars, uiVars>>

\* fetch resolves with a response of status st.
FetchResponds(c, st) ==
  /\ calls[c].pc = "fetch"
  /\ LET got == [calls[c] EXCEPT !.res = {st}]
     IN calls' = [calls EXCEPT ![c] =
                    IF ~Ok(st) THEN Throw(got, HttpError(st))
                    ELSE [got EXCEPT !.pc = "json"]]
  /\ UNCHANGED <<ext, listeners, streamVars, normVars, uiVars>>

\* fetch rejects: the exchange failed at the transport level.
FetchFails(c) ==
  /\ calls[c].pc = "fetch"
  /\ calls' = [calls EXCEPT ![c] = Throw(calls[c], FetchTypeError)]
  /\ UNCHANGED <<ext, listeners, streamVars, normVars, uiVars>>

\* res.json() resolves with a payload.
JsonResolves(c, payload) ==
  /\ calls[c].pc = "json"
  /\ calls' = [calls EXCEPT ![c] = Return(calls[c], normaliseResponse(payload))]
  /\ UNCHANGED <<ext, listeners, streamVars, normVars, uiVars>>

\* res.json() rejects: the body cannot be read or decoded.
JsonFails(c, error) ==
  /\ calls[c].pc = "json"
  /\ calls' = [calls EXCEPT ![c] = Throw(calls[c], error)]
  /\ UNCHANGED <<ext, listeners, streamVars, normVars, uiVars>>

\* A call whose timer is still waiting for its delay to elapse.
Waiting(call) == InFlight(call) /\ call.elapsed < call.timeoutMs

\* One time unit passes for every call in flight; a call's clock is followed
\* until its timeoutMs has elapsed.
Tick ==
  /\ \E c \in CallIds : Waiting(calls[c])
  /\ calls' = [c \in CallIds |->
                 IF Waiting(calls[c])
                 THEN [calls[c] EXCEPT !.elapsed = @ + 1]
                 ELSE calls[c]]
  /\ UNCHANGED <<ext, listeners, streamVars, normVars, uiVars>>

----------------------------------------------------------------------------
(* runCodePilotStream.                                                     *)

NoEffects ==
  [requests |-> 0, timers |-> 0, listeners |-> 0,
   onPartialUpdate |-> 0, onComplete |-> 0]

\* A stub that reports completion to the handlers it is given before it
\* throws.
RunCodePilotStreamCallsHandler(withSignal, withHandlers) ==
  /\ streamOutcome' = Rejected(CodePilotError(StreamMessage, undefined))
  /\ streamEffects' = [streamEffects EXCEPT
                         !.onComplete = IF withHandlers THEN 1 ELSE @]
  /\ UNCHANGED <<callVars, normVars, uiVars>>

\* runCodePilotStream(_options, _handlers): throws, whatever it is given.
RunCodePilotStream(withSignal, withHandlers) ==
  /\ streamOutcome' = Rejected(CodePilotError(StreamMessage, undefined))
  /\ UNCHANGED <<streamEffects, callVars, normVars, uiVars>>

----------------------------------------------------------------------------
(* The page: ChatInput (components/ChatInput.tsx), HomePage (app/page.tsx)  *)
(* and ToastProvider (components/ToastProvider.tsx).                        *)
(*                                                                          *)
(* React semantics assumed (React 18):                                      *)
(*   - a state setter called with an updater queues it; updaters are        *)
(*     applied in the order queued, so the model applies each at once and   *)
(*     keeps what the components last rendered with apart from the state.   *)
(*   - state set inside a submit or click handler is rendered, and the      *)
(*     effects of that render are run, before the next event is handled.    *)
(*   - state set in the continuation of an await or in a timer callback is  *)
(*     rendered in a later task, and the effects of that render run after   *)
(*     it: timers and events of the environment may run in between.         *)
(*   - an effect with dependencies [toasts] runs its previous cleanup and   *)
(*     then its body after every render in which toasts is a new array.     *)

MaxRuns == 2       \* submissions that reach handleRun in one behaviour
MaxText == 2       \* characters typed into the textarea

Chars == {" ", "a"}
Texts == UNION {[1..n -> Chars] : n \in 0..MaxText}

RECURSIVE TrimStart(_)
TrimStart(t) ==
  IF t # <<>> /\ Head(t) = " " THEN TrimStart(Tail(t)) ELSE t

RECURSIVE TrimEnd(_)
TrimEnd(t) ==
  IF t # <<>> /\ t[Len(t)] = " " THEN TrimEnd(SubSeq(t, 1, Len(t) - 1)) ELSE t

\* String.prototype.trim.
Trim(t) == TrimEnd(TrimStart(t))

null == {}

\* The guard of handleSubmit without its isLoading test.
CanSubmitIgnoresLoading(text, loading) == Trim(text) # <<>>

\* handleSubmit goes on to onSubmit: !(!problem.trim() || isLoading).
CanSubmit(text, loading) == Trim(text) # <<>> /\ ~loading

\* What runCodePilot({problem}) settles with: no signal is passed, so the
\* call ends with a normalised response, an HTTP failure, a transport
\* failure or its own timeout.
RunOutcomes ==
  {Fulfilled(normaliseResponse(p)) : p \in WirePayloads}
    \cup {Rejected(ClassifyError(e)) :
            e \in {HttpError(500), FetchTypeError, TimeoutReason}}

UnexpectedMessage == "Unexpected error while running CodePilot."

\* The message handleRun shows for a caught value.
ErrorMessage(e) ==
  IF e.type = "CodePilotError" THEN CHOOSE m \in e.message : TRUE
  ELSE UnexpectedMessage

InitialPage == [isLoading |-> FALSE, result |-> null, error |-> null]

\* handleRun up to its await.
HandleRunBegin(p) == [isLoading |-> TRUE, error |-> null, result |-> null]

\* A handleRun whose reset of isLoading sits at the end of try.
HandleRunSettleNoFinally(p, outcome) ==
  IF outcome.state = "fulfilled"
  THEN [p EXCEPT !.result = {outcome.value}, !.isLoading = FALSE]
  ELSE [p EXCEPT !.error = {ErrorMessage(outcome.error)}]

\* handleRun from the await on: setResult, or catch, and finally.
HandleRunSettle(p, outcome) ==
  IF outcome.state = "fulfilled"
  THEN [p EXCEPT !.result = {outcome.value}, !.isLoading = FALSE]
  ELSE [p EXCEPT !.error = {ErrorMessage(outcome.error)}, !.isLoading = FALSE]

\* Toast ids are `${Date.now()}-${random}`: two toasts may share one.
ToastIds == {"id1", "id2"}

ToastDurationMs == 4000

\* The updater of showToast.
showToast(prev, id, message, type) ==
  Append(prev, [id |-> id, message |-> message, type |-> type])

\* The updater of the timer callback: prev.slice(1).
Slice1(prev) == IF prev = <<>> THEN <<>> ELSE Tail(prev)

\* The updater of dismiss: prev.filter(t => t.id !== id).
dismiss(prev, id) == SelectSeq(prev, LAMBDA t : t.id # id)

\* An effect that returns no cleanup.
EffectCleanupSkipped(timers, gen) == timers

\* The cleanup of the effect run gen: clearTimeout(timer).
EffectCleanup(timers, gen) == {t \in timers : t.gen # gen}

\* The effect runs for the list it was rendered with: the cleanup of the
\* previous run, then a timer unless the list is empty.
RunEffect(timers, gen, list) ==
  EffectCleanup(timers, gen)
    \cup (IF list = <<>> THEN {}
          ELSE {[gen |-> gen + 1, delay |-> ToastDurationMs]})

Step(op, id, text, loading) ==
  [op |-> op, id |-> id, problem |-> text, isLoading |-> loading]

\* onChange of the textarea.
SetProblem(text) ==
  /\ text # problem
  /\ problem' = text
  /\ uiStep' = Step("change", "", <<>>, FALSE)
  /\ UNCHANGED <<isLoadingProp, pageVars, toastVars, callVars, streamVars,
                 normVars>>

\* A submit event: handleSubmit and, through onSubmit, handleRun up to its
\* await. The state set there is rendered before the next event.
Submit ==
  /\ runs < MaxRuns
  /\ IF CanSubmit(problem, isLoadingProp)
     THEN /\ page' = HandleRunBegin(page)
          /\ isLoadingProp' = page'.isLoading
          /\ pending' = pending + 1
          /\ runs' = runs + 1
          /\ uiStep' = Step("onSubmit", "", Trim(problem), page.isLoading)
     ELSE /\ uiStep' = Step("ignored", "", <<>>, FALSE)
          /\ UNCHANGED <<isLoadingProp, pageVars>>
  /\ UNCHANGED <<problem, toastVars, callVars, streamVars, normVars>>

\* runCodePilot settles and handleRun runs to its end; a failure shows a
\* toast with a fresh id.
Settle(outcome, id) ==
  /\ pending > 0
  /\ page' = HandleRunSettle(page, outcome)
  /\ pending' = pending - 1
  /\ IF outcome.state = "rejected"
     THEN /\ toasts' = showToast(toasts, id, ErrorMessage(outcome.error),
                                 "error")
          /\ toastDirty' = TRUE
     ELSE UNCHANGED <<toasts, toastDirty>>
  /\ uiStep' = Step("settle", "", <<>>, FALSE)
  /\ UNCHANGED <<inputVars, runs, renderedToasts, toastTimers, toastGen,
                 callVars, streamVars, normVars>>

\* React renders the state set outside event handlers and runs the effect
\* of ToastProvider if toasts was set.
Commit ==
  /\ toastDirty \/ isLoadingProp # page.isLoading
  /\ isLoadingProp' = page.isLoading
  /\ IF toastDirty
     THEN /\ renderedToasts' = toasts
          /\ toastTimers' = RunEffect(toastTimers, toastGen, toasts)
          /\ toastGen' = toastGen + 1
          /\ toastDirty' = FALSE
     ELSE UNCHANGED <<renderedToasts, toastTimers, toastGen, toastDirty>>
  /\ uiStep' = Step("commit", "", <<>>, FALSE)
  /\ UNCHANGED <<problem, pageVars, toasts, callVars, streamVars, normVars>>

\* The callback of a pending timer of the effect.
ToastTimerFires(t) ==
  /\ t \in toastTimers
  /\ toastTimers' = toastTimers \ {t}
  /\ toasts' = Slice1(toasts)
  /\ toastDirty' = TRUE
  /\ uiStep' = Step("expire", "", <<>>, FALSE)
  /\ UNCHANGED <<inputVars, pageVars, renderedToasts, toastGen, callVars,
                 streamVars, normVars>>

\* A click on the button of a rendered toast: dismiss(toast.id). The state
\* set there is rendered, and the effect run, before the next event.
Dismiss(id) ==
  /\ \E i \in DOMAIN renderedToasts : renderedToasts[i].id = id
  /\ toasts' = dismiss(toasts, id)
  /\ renderedToasts' = toasts'
  /\ toastTimers' = RunEffect(toastTimers, toastGen, toasts')
  /\ toastGen' = toastGen + 1
  /\ toastDirty' = FALSE
  /\ uiStep' = Step("dismiss", id, <<>>, FALSE)
  /\ UNCHANGED <<inputVars, pageVars, callVars, streamVars, normVars>>

UIInit ==
  /\ problem = <<>>
  /\ isLoadingProp = FALSE
  /\ page = InitialPage
  /\ pending = 0
  /\ runs = 0
  /\ toasts = <<>>
  /\ renderedToasts = <<>>
  /\ toastDirty = FALSE
  /\ toastTimers = {}
  /\ toastGen = 0
  /\ uiStep = Step("mount", "", <<>>, FALSE)

----------------------------------------------------------------------------
(* Specifications.                                                         *)

CallsInit ==
  /\ ext = NotAborted
  /\ listeners = [c \in CallIds |-> 0]
  /\ calls = [c \in CallIds |-> IdleCall]
  /\ streamOutcome = Pending
  /\ streamEffects = NoEffects

Init ==
  /\ CallsInit
  /\ raw = JNull
  /\ normalised = NotNormalised
  /\ renormalised = NotNormalised
  /\ UIInit

Next ==
  \/ \E c \in CallIds, supplied \in BOOLEAN, T \in TimeoutChoices :
       Start(c, supplied, T)
  \/ \E reason \in CallerReasons : ExtAbort(reason)
  \/ \E c \in CallIds : TimerFires(c)
  \/ \E c \in CallIds, st \in Statuses : FetchResponds(c, st)
  \/ \E c \in CallIds : FetchFails(c)
  \/ \E c \in CallIds, payload \in WirePayloads : JsonResolves(c, payload)
  \/ \E c \in CallIds : JsonFails(c, JsonSyntaxError)
  \/ Tick

Spec == Init /\ [][Next]_vars

\* normaliseResponse applied to every payload of RawPayloads.
Normalise ==
  /\ normalised = NotNormalised
  /\ normalised' = normaliseResponse(raw)
  /\ UNCHANGED <<raw, renormalised, callVars, streamVars, uiVars>>

\* normaliseResponse applied to a response it returned.
Renormalise ==
  /\ normalised # NotNormalised
  /\ renormalised = NotNormalised
  /\ renormalised' = normaliseResponse(normalised)
  /\ UNCHANGED <<raw, normalised, callVars, streamVars, uiVars>>

InitNorm ==
  /\ CallsInit
  /\ raw \in RawPayloads(CanonicalKeys, AllKeys \ CanonicalKeys)
  /\ normalised = NotNormalised
  /\ renormalised = NotNormalised
  /\ UIInit

NextNorm ==
  \/ Normalise
  \/ Renormalise
  \/ \E s \in BOOLEAN, h \in BOOLEAN : RunCodePilotStream(s, h)

SpecNorm == InitNorm /\ [][NextNorm]_vars

InitUI ==
  /\ CallsInit
  /\ raw = JNull
  /\ normalised = NotNormalised
  /\ renormalised = NotNormalised
  /\ UIInit

NextUI ==
  \/ \E text \in Texts : SetProblem(text)
  \/ Submit
  \/ \E outcome \in RunOutcomes, id \in ToastIds : Settle(outcome, id)
  \/ Commit
  \/ \E t \in toastTimers : ToastTimerFires(t)
  \/ \E id \in ToastIds : Dismiss(id)

\* React renders queued state and a pending timer fires: neither waits for
\* ever. The user and the backend are under no obligation.
SpecUI ==
  /\ InitUI
  /\ [][NextUI]_vars
  /\ WF_vars(Commit)
  /\ WF_vars(\E t \in toastTimers : ToastTimerFires(t))

----------------------------------------------------------------------------
(* The kinds of error a caller can tell apart: CodePilotError is one class, *)
(* so a kind is read off the status and the message.                        *)

IsCodePilotError(e) == e.type = "CodePilotError"
IsHttpKind(e) == IsCodePilotError(e) /\ e.status # undefined
IsNetworkKind(e) ==
  IsCodePilotError(e) /\ e.status = undefined /\ e.message = {NetworkMessage}
IsStreamingKind(e) ==
  IsCodePilotError(e) /\ e.status = undefined /\ e.message = {StreamMessage}
IsCancellationKind(e) ==
  /\ IsCodePilotError(e)
  /\ ~IsHttpKind(e) /\ ~IsNetworkKind(e) /\ ~IsStreamingKind(e)

\* Messages that tell the user the request timed out.
TimeoutMessages == {{"Request timed out"}, {AbortFallbackMessage}}

Done(c) == calls[c].pc = "done"
Failed(c) == Done(c) /\ calls[c].outcome.state = "rejected"
Succeeded(c) == Done(c) /\ calls[c].outcome.state = "fulfilled"

\* The call was cancelled by its caller while the exchange was outstanding.
CancelledInFlight(c) ==
  /\ Done(c) /\ calls[c].signal /\ ~calls[c].cancelledAtCall
  /\ ext.aborted /\ calls[c].thrown = {ext.reason}

\* The call's timer fired while the exchange was outstanding.
TimedOut(c) ==
  Done(c) /\ calls[c].timeout = "fired" /\ calls[c].thrown = {TimeoutReason}

----------------------------------------------------------------------------
(* Claims.                                                                 *)

\* C1: a call issued with an already cancelled signal sends no request and
\* fails at once with a cancellation-kind CodePilotError, its effective token
\* cancelled with the caller's reason.
C1_AlreadyCancelled ==
  \A c \in CallIds :
    calls[c].cancelledAtCall =>
      /\ calls[c].requests = 0
      /\ calls[c].elapsed = 0
      /\ calls[c].controller = [aborted |-> TRUE, reason |-> ext.reason]
      /\ Failed(c)
      /\ IsCancellationKind(calls[c].outcome.error)

\* C2: a call whose transport never resolves and whose caller never cancels
\* fails no earlier than timeoutMs after it was issued, with a cancellation
\* error whose message identifies a time-out.
C2_TimeoutVariant ==
  \A c \in CallIds :
    (TimedOut(c) /\ calls[c].res = undefined /\ ~ext.aborted) =>
      /\ calls[c].elapsed >= calls[c].timeoutMs
      /\ Failed(c)
      /\ IsCancellationKind(calls[c].outcome.error)
      /\ calls[c].outcome.error.message \in TimeoutMessages

\* C3: once a call has returned, on whatever exit path, its timer is no
\* longer pending, so no timer of a finished call can fire.
C3_TimerReleased ==
  \A c \in CallIds :
    Done(c) => calls[c].timeout \in {"cleared", "fired"} /\ ~ENABLED TimerFires(c)

\* C3 witness: one call returned normally and another timed out, and both
\* timers are spent.
C3_Witness ==
  \E c, d \in CallIds :
    /\ Succeeded(c) /\ calls[c].timeout = "cleared"
    /\ TimedOut(d)

\* C4: once a call issued with a live external signal has returned, the abort
\* listener it registered on that signal is gone.
C4_ListenerReleased ==
  \A c \in CallIds :
    (Done(c) /\ calls[c].signal /\ ~calls[c].cancelledAtCall) => listeners[c] = 0

\* C5: a call cancelled by its caller during the exchange fails with a
\* cancellation-kind error that carries the caller's reason text and differs
\* from the error a timeout produces.
C5_CallerReasonCarried ==
  \A c \in CallIds :
    CancelledInFlight(c) =>
      /\ Failed(c)
      /\ IsCancellationKind(calls[c].outcome.error)
      /\ calls[c].outcome.error.message = {ReasonText(ext.reason)}
      /\ calls[c].outcome.error # ClassifyError(TimeoutReason)

\* C6: a response whose status is outside the success range makes the call
\* fail with an HTTP-kind error carrying that status; its body is never
\* read or normalised.
C6_HttpFailure ==
  \A c \in CallIds :
    (\E st \in calls[c].res : ~Ok(st)) =>
      /\ Failed(c)
      /\ IsHttpKind(calls[c].outcome.error)
      /\ calls[c].outcome.error.status = calls[c].res
      /\ calls[c].thrown = {calls[c].outcome.error}

\* C6 witness: a call answered with status 500 has failed with status 500.
C6_Witness ==
  \E c \in CallIds :
    /\ calls[c].res = {500}
    /\ Failed(c)
    /\ calls[c].outcome.error.status = {500}

\* C7: a transport failure or an undecodable body, with the effective token
\* not cancelled, makes the call fail with the generic network error: the
\* fixed message and no status.
C7_NetworkFailure ==
  \A c \in CallIds :
    calls[c].thrown \in {{FetchTypeError}, {JsonSyntaxError}} =>
      /\ Failed(c)
      /\ calls[c].outcome.error = CodePilotError(NetworkMessage, undefined)

\* C7 witness: one call failed at the transport level and another on
\* decoding its body, neither with its token cancelled.
C7_Witness ==
  \E c, d \in CallIds :
    /\ calls[c].thrown = {FetchTypeError} /\ ~calls[c].controller.aborted
    /\ calls[d].thrown = {JsonSyntaxError} /\ ~calls[d].controller.aborted
    /\ IsNetworkKind(calls[c].outcome.error)
    /\ IsNetworkKind(calls[d].outcome.error)

\* C8: every failure of runCodePilot and of runCodePilotStream is a
\* CodePilotError with a non-empty message, whatever value was thrown.
C8_AlwaysClassified ==
  /\ \A c \in CallIds :
       Failed(c) =>
         /\ IsCodePilotError(calls[c].outcome.error)
         /\ calls[c].outcome.error.message \notin {undefined, {""}}
  /\ streamOutcome.state = "rejected" =>
       /\ IsCodePilotError(streamOutcome.error)
       /\ streamOutcome.error.message \notin {undefined, {""}}

\* C9: a call sends at most one request to /solve, exactly one when its
\* signal is not cancelled at call time, and none otherwise; no outcome adds
\* a request.
C9_OneRequest ==
  \A c \in CallIds :
    /\ calls[c].requests <= 1
    /\ calls[c].pc # "idle" =>
         calls[c].requests = IF calls[c].cancelledAtCall THEN 0 ELSE 1

\* C9 witness: a call that failed after its one request, beside a call that
\* was cancelled at call time and sent none.
C9_Witness ==
  \E c, d \in CallIds :
    /\ Failed(c) /\ calls[c].requests = 1
    /\ Failed(d) /\ calls[d].cancelledAtCall /\ calls[d].requests = 0

\* The payload supplies a key: it is an object that has it.
Supplies(r, key) == r.t = "object" /\ key \in DOMAIN r.f

\* C10: for every payload the normalised response has every canonical key,
\* holding null when the payload supplied neither the key nor its alias.
C10_AllKeysPresent ==
  normalised # NotNormalised =>
    /\ normalised.t = "object"
    /\ \A key \in CanonicalKeys :
         /\ key \in DOMAIN normalised.f
         /\ normalised.f[key].t # "undefined"
         /\ (~Supplies(raw, key) /\ ~Supplies(raw, Alias(key))) =>
              normalised.f[key] = JNull

\* C10 witness: an object payload that has some canonical keys and lacks
\* others has been normalised.
C10_Witness ==
  /\ normalised # NotNormalised
  /\ raw.t = "object"
  /\ Supplies(raw, "request_id")
  /\ ~Supplies(raw, "test_result") /\ ~Supplies(raw, "test_results")
  /\ ~Supplies(raw, "execution_log")
  /\ normalised.f["test_result"] = JNull
  /\ normalised.f["request_id"] = JString("r1")

\* The sequence fields of the result object held under a canonical key.
SequenceFields(key) ==
  CASE key = "planning_result" -> {"alternative_approaches"}
    [] key = "test_result" -> {"cases"}
    [] key = "debug_result" -> {"issues", "suggestions"}
    [] OTHER -> {}

IsSequence(v) == v.t = "array"

\* C11: in the normalised response execution_log is a sequence, and so are
\* alternative_approaches, cases, issues and suggestions inside every result
\* object that is not null: an omitted one is an empty sequence.
C11_SequencesNeverAbsent ==
  normalised # NotNormalised =>
    /\ IsSequence(normalised.f["execution_log"])
    /\ ~Supplies(raw, "execution_log") =>
         normalised.f["execution_log"] = JArray(<<>>)
    /\ \A key \in CanonicalKeys :
         normalised.f[key] # JNull =>
           \A field \in SequenceFields(key) :
             IsSequence(Get(normalised.f[key], field))

\* C12: normaliseResponse is idempotent: applied to its own result it
\* returns that result, field for field.
C12_Idempotent ==
  renormalised # NotNormalised =>
    /\ DOMAIN renormalised.f = DOMAIN normalised.f
    /\ \A key \in DOMAIN normalised.f : renormalised.f[key] = normalised.f[key]

\* C12 witness: a payload that used legacy keys has been normalised twice.
C12_Witness ==
  /\ renormalised # NotNormalised
  /\ Supplies(raw, "test_results") /\ ~Supplies(raw, "test_result")
  /\ Supplies(raw, "debug_analysis") /\ Supplies(raw, "debug_result")
  /\ renormalised.f["test_result"] = ValueFor("test_results")

\* C13 as stated: the primary key's value whenever the primary key is
\* present, the alias's value only when the primary key is absent, null when
\* both are absent.
C13_PrimaryWheneverPresent ==
  normalised # NotNormalised =>
    \A key \in AliasedKeys :
      normalised.f[key] =
        IF Supplies(raw, key) THEN raw.f[key]
        ELSE IF Supplies(raw, Alias(key)) THEN raw.f[Alias(key)]
        ELSE JNull

\* The key holds a value other than null or undefined.
HasValue(r, key) == Get(r, key).t \notin {"null", "undefined"}

\* C13: for each aliased field the result is the primary key's value
\* whenever the primary key holds a value other than null, the alias's value
\* when the primary key is absent or null and the alias holds a value, and
\* null otherwise; when both hold values that disagree, the primary wins.
C13_PrimaryWins ==
  normalised # NotNormalised =>
    \A key \in AliasedKeys :
      normalised.f[key] =
        IF HasValue(raw, key) THEN raw.f[key]
        ELSE IF HasValue(raw, Alias(key)) THEN raw.f[Alias(key)]
        ELSE JNull

\* C13 witness: a payload in which a primary key and its alias both hold
\* values that disagree, another primary key is null beside its alias, and a
\* third pair is absent.
C13_Witness ==
  /\ normalised # NotNormalised
  /\ HasValue(raw, "test_result") /\ HasValue(raw, "test_results")
  /\ raw.f["test_result"] # raw.f["test_results"]
  /\ normalised.f["test_result"] = raw.f["test_result"]
  /\ Supplies(raw, "debug_result") /\ raw.f["debug_result"] = JNull
  /\ HasValue(raw, "debug_analysis")
  /\ normalised.f["debug_result"] = raw.f["debug_analysis"]
  /\ ~Supplies(raw, "intent_result") /\ ~Supplies(raw, "intent_classification")

\* C14: runCodePilotStream always fails with the fixed "not enabled" error:
\* it sends no request, creates no timer or listener and never calls
\* onPartialUpdate or onComplete.
C14_StreamUnavailable ==
  /\ streamOutcome \in {Pending, Rejected(CodePilotError(StreamMessage, undefined))}
  /\ streamEffects = NoEffects
  /\ \A c \in CallIds :
       calls[c].requests = 0 /\ calls[c].timeout = "none" /\ listeners[c] = 0

\* C14 witness: runCodePilotStream has been called and has failed.
C14_Witness ==
  /\ streamOutcome.state = "rejected"
  /\ IsStreamingKind(streamOutcome.error)

\* What a call's caller and its exchange can observe of it: everything but
\* the clock.
Core(call) == [call EXCEPT !.elapsed = 0]

\* The errors a call's own events can make it throw.
OwnThrows(call) ==
  {FetchTypeError, JsonSyntaxError}
    \cup {HttpError(st) : st \in call.res}
    \cup (IF call.controller.aborted THEN {call.controller.reason} ELSE {})

\* A call is decided by its own events: its error classifies a value its own
\* exchange or its own token threw, and without the caller's signal its token
\* is cancelled by its own timer alone.
C15_OwnEventsOnly ==
  \A c \in CallIds :
    /\ Failed(c) =>
         /\ calls[c].thrown \subseteq OwnThrows(calls[c])
         /\ \E e \in calls[c].thrown : calls[c].outcome.error = ClassifyError(e)
    /\ (~calls[c].signal /\ calls[c].controller.aborted) =>
         calls[c].timeout = "fired" /\ calls[c].controller.reason = TimeoutReason

\* A step in which a call progresses leaves every call with a separate token
\* as it was.
C15_OneCallPerStep ==
  \A c, d \in CallIds :
    (/\ c # d
     /\ ~(calls[c].signal' /\ calls[d].signal')
     /\ Core(calls[c])' # Core(calls[c]))
      => Core(calls[d])' = Core(calls[d])

\* C15: two concurrent calls with separate tokens share no mutable state:
\* under every interleaving each call is decided by its own events, and the
\* timeout, cancellation or failure of one changes nothing of the other.
C15_Independent == [](C15_OwnEventsOnly) /\ [][C15_OneCallPerStep]_vars

\* C15 witness: of two overlapping calls, the later one was cancelled by its
\* caller while the earlier one, which has no external token, is still in
\* flight with its token not cancelled.
C15_Witness ==
  \E c, d \in CallIds :
    /\ d < c
    /\ CancelledInFlight(c)
    /\ ~calls[d].signal
    /\ InFlight(calls[d]) /\ ~calls[d].controller.aborted

\* C16: once a call has resolved, a later cancellation of the caller's signal
\* or expiry of the timeout changes neither its outcome nor its state.
C16_ResolvedIsFinal ==
  [][\A c \in CallIds :
       Done(c) => /\ calls[c].outcome' = calls[c].outcome
                  /\ calls[c].pc' = "done"
                  /\ calls[c].timeout' = calls[c].timeout]_vars

\* C16 witness: a call that returned a response, whose caller cancelled the
\* signal afterwards.
C16_Witness ==
  \E c \in CallIds :
    /\ Succeeded(c)
    /\ calls[c].signal /\ ext.aborted
    /\ calls[c].controller.aborted

\* The call was issued with an external signal that was not yet cancelled.
Subscribed(c) == calls[c].signal /\ ~calls[c].cancelledAtCall

\* One subscription while the signal is live, and the effective token
\* cancelled exactly when the signal was cancelled or the timer fired.
C17_SubscribedOnce ==
  \A c \in CallIds :
    Subscribed(c) =>
      /\ listeners[c] = IF ext.aborted THEN 0 ELSE 1
      /\ calls[c].controller.aborted <=>
           (ext.aborted \/ calls[c].timeout = "fired")

\* The token takes the reason of the event that cancels it and keeps it.
C17_ReasonKept ==
  \A c \in CallIds :
    Subscribed(c) =>
      /\ calls[c].controller.aborted =>
           calls[c].controller' = calls[c].controller
      /\ (~calls[c].controller.aborted /\ calls[c].controller.aborted') =>
           calls[c].controller.reason' =
             IF ext.aborted' /\ ~ext.aborted THEN ext.reason' ELSE TimeoutReason

\* C17: a call given a live external signal subscribes to it exactly once;
\* its effective token is cancelled exactly when the first of the signal's
\* cancellation and the timeout occurs, with that event's reason, and a later
\* second event does not overwrite the reason.
C17_FirstEventWins == [](C17_SubscribedOnce) /\ [][C17_ReasonKept]_vars

\* C17 witness: the timer fired first and the caller cancelled afterwards;
\* the token still carries the timeout's reason.
C17_Witness ==
  \E c \in CallIds :
    /\ Subscribed(c)
    /\ calls[c].timeout = "fired"
    /\ ext.aborted
    /\ calls[c].controller = [aborted |-> TRUE, reason |-> TimeoutReason]

----------------------------------------------------------------------------
\* C18: In the page component result and error are never both non-null,
\* isLoading is false whenever no handleRun invocation is outstanding, and
\* every handleRun invocation ends with isLoading reset to false, whether
\* runCodePilot succeeded or failed.
C18_NotBoth == page.result = null \/ page.error = null

C18_IdleNotLoading == pending = 0 => ~page.isLoading

C18_EndsReset == pending' < pending => ~page'.isLoading

C18_PageState ==
  [](C18_NotBoth /\ C18_IdleNotLoading) /\ [][C18_EndsReset]_vars

\* A run that succeeded after a run that failed: the toast of the failure
\* is still shown, the error is gone.
C18_Witness ==
  /\ pending = 0
  /\ runs >= 2
  /\ toasts # <<>>
  /\ page.result # null
  /\ page.error = null
  /\ ~page.isLoading

----------------------------------------------------------------------------
\* C19: ChatInput calls onSubmit only with a trimmed, non-empty problem and
\* only while isLoading is false, so that at most one runCodePilot call of
\* the page is in flight at any time, however submit events interleave with
\* the rendering of isLoading and with the completion of calls.
C19_OnSubmitArgs ==
  uiStep.op = "onSubmit" =>
    /\ uiStep.problem = Trim(problem)
    /\ uiStep.problem # <<>>
    /\ Head(uiStep.problem) # " "
    /\ uiStep.problem[Len(uiStep.problem)] # " "
    /\ ~uiStep.isLoading

C19_SingleFlight == C19_OnSubmitArgs /\ pending <= 1

\* A submit event with a problem to send, ignored because a call is in
\* flight.
C19_Witness ==
  /\ uiStep.op = "ignored"
  /\ pending = 1
  /\ Trim(problem) # <<>>
  /\ Trim(problem) # problem

----------------------------------------------------------------------------
\* C20: In ToastProvider toasts are removed oldest-first, one per expiry of
\* a 4000 ms timer, and the timer is restarted on every change of the list;
\* every toast shown is eventually removed, by a timer or by dismiss(id),
\* which removes only the toasts with that id, once showToast is no longer
\* called; and the list is never modified by a timer of a previous list
\* state.
C20_OneTimer ==
  /\ Cardinality(toastTimers) <= 1
  /\ \A t \in toastTimers : t.delay = 4000

\* Once the effect has run for the list, the pending timer is the one that
\* run started, and there is one exactly if the list is not empty.
C20_Restarted ==
  ~toastDirty =>
    toastTimers = IF toasts = <<>> THEN {}
                  ELSE {[gen |-> toastGen, delay |-> ToastDurationMs]}

C20_Removals ==
  /\ uiStep'.op = "expire" =>
       /\ Len(toasts') = (IF toasts = <<>> THEN 0 ELSE Len(toasts) - 1)
       /\ \A i \in DOMAIN toasts' : toasts'[i] = toasts[i + 1]
  /\ uiStep'.op = "dismiss" =>
       toasts' = SelectSeq(toasts, LAMBDA t : t.id # uiStep'.id)
  /\ Len(toasts') < Len(toasts) => uiStep'.op \in {"expire", "dismiss"}

\* A timer that fires was started for the list as it is now.
C20_NoStaleTimer == uiStep'.op = "expire" => ~toastDirty

C20_EventuallyRemoved == (toasts # <<>>) ~> (toasts = <<>>)

C20_ToastLifecycle ==
  /\ [](C20_OneTimer /\ C20_Restarted)
  /\ [][C20_Removals /\ C20_NoStaleTimer]_vars
  /\ C20_EventuallyRemoved

====
